---- MODULE Spec2Model ----
(***************************************************************************)
(* Resilient dispatch engine of service-failover: FailoverManager.execute  *)
(* iterating the registered Services, CircuitBreaker admission and outcome *)
(* recording, RetryPolicy.execute_with_retry around Service.request.       *)
(*                                                                         *)
(* Every execute call is an asyncio task.  A task runs without             *)
(* interruption between two suspension points, so one action of the model  *)
(* is the code a task runs from one suspension point to the next:          *)
(*   - suspended inside Service.request (health probe, pool, limiter,      *)
(*     HTTP): pc = "request";                                              *)
(*   - suspended in the backoff asyncio.sleep: pc = "sleep".               *)
(***************************************************************************)
EXTENDS Integers, Sequences, FiniteSets, TLC

\* ------------------------------------------------------------------ bounds
MaxTime == 2             \* the clock stops advancing here
failure_threshold == 2   \* CircuitBreaker(failure_threshold=...)
recovery_time == 1       \* CircuitBreaker(recovery_time=...), clock units
max_attempts == 2        \* RetryPolicy(max_attempts=...)
ttl == 1                 \* Cache(ttl=...), clock units
max_size == 2            \* ConnectionPool(max_size=...)
rate_limit == 1          \* RateLimiter(rate=...)
period == 1              \* RateLimiter(period=...), clock units
MaxDepth == 2            \* 429 answers a request may get in a row
HistoryLimit == 3        \* length health_history is trimmed to (100 in the code)
MaxArg == 2              \* largest value passed to RetryPolicy(...) for an argument

Services == {"S1", "S2"}
\* the execute calls that may be in flight together
Calls == {1, 2}
\* the tasks that may be inside one Service's request together
Tasks == {1, 2}

\* ------------------------------------------------------- program constants
HTTP_METHODS == {"GET", "POST", "PUT", "DELETE"}
\* the methods a caller passes: the supported ones and one that is not
Methods == {"GET", "PATCH"}
\* request arguments: one endpoint, str(params) for params None and for a
\* dict, str(data) for data None
Endpoint == "/x"
Params == {"None", "{'q': 'p'}"}
Data == "None"
\* response body texts, the empty one included
Bodies == {"", "a"}

VARIABLES
  services,         \* FailoverManager.services: list, in registration order
  circuit_breaker,  \* the CircuitBreaker's three dicts keyed by Service
  now,              \* time.time()
  pc,               \* per call: idle | request | sleep | returned | raised | cancelled
  admitted,         \* per call (history): the breaker state the current Service was admitted in
  method,           \* per call: the method argument of execute
  idx,              \* per call: position in services of the Service being tried
  attempt,          \* per call: execute_with_retry's loop variable
  result,           \* per call: what execute returned or raised
  visited,          \* per call (history): outcome of every position consulted so far
  invocations,      \* per call (history): calls of func in the current execute_with_retry
  sleeps,           \* per call (history): backoff sleeps started in the current execute_with_retry
  recorded,         \* per call (history): record_failure calls made, per Service
  error,            \* per call: the exception execute's except clause caught last
  tasks,            \* per task inside Service.request: position, frames, outcome, history
  cache,            \* Service.cache: the TTLCache of Cache, key -> value and expiry
  semaphore,        \* Service.connection_pool._semaphore: free slots
  task_logs,        \* Service.rate_limiter.throttler: times of the tokens handed out
  last_health_status, \* Service._last_health_status
  issued,           \* (history) times of the HTTP requests issued within the last period
  base_url,         \* Service.base_url
  hc,               \* a health_check call followed await by await: position, HealthStatus, value returned
  health_history,   \* ExternalAPIService.health_history
  probes,           \* (history) what the latest health_check calls returned, oldest first
  retry_policy,     \* a RetryPolicy: max_attempts, base_delay, jitter
  given,            \* (history) the arguments that RetryPolicy was constructed with
  delay             \* the wait execute_with_retry computed last, and for which attempt

\* a RetryPolicy looked at on its own
pvars == <<retry_policy, given, delay>>

\* the state of one Service and of the tasks inside its request
svars == <<tasks, cache, semaphore, task_logs, last_health_status, issued,
           base_url, hc, health_history, probes, pvars>>

vars == <<services, circuit_breaker, now, pc, method, idx, attempt, result,
          visited, invocations, sleeps, recorded, admitted, error, svars>>

\* ------------------------------------------------------------ Python dicts
\* d.get(k, default)
Get(d, k, default) == IF k \in DOMAIN d THEN d[k] ELSE default

\* d[k] = v
Put(d, k, v) == [x \in (DOMAIN d) \cup {k} |-> IF x = k THEN v ELSE d[x]]

EmptyDict == [x \in {} |-> 0]

\* --------------------------------------------------------- CircuitBreaker
\* CircuitBreaker.__init__
NewCircuitBreaker ==
  [state |-> EmptyDict, failure_counts |-> EmptyDict, last_failure_time |-> EmptyDict]

get_state(cb, service) == Get(cb.state, service, "CLOSED")

get_failure_count(cb, service) == Get(cb.failure_counts, service, 0)

get_last_failure_time(cb, service) == Get(cb.last_failure_time, service, 0)

\* allow_request readmitting as soon as the recovery window is reached (>= for >)
allow_request_at_window(cb, service, t) ==
  IF get_state(cb, service) = "OPEN"
  THEN IF t - Get(cb.last_failure_time, service, 0) >= recovery_time
       THEN [cb |-> [cb EXCEPT !.state = Put(cb.state, service, "HALF_OPEN")],
             ret |-> TRUE]
       ELSE [cb |-> cb, ret |-> FALSE]
  ELSE [cb |-> cb, ret |-> TRUE]

\* allow_request that clears the failure count when it readmits
allow_request_clears_count(cb, service, t) ==
  IF get_state(cb, service) = "OPEN"
  THEN IF t - Get(cb.last_failure_time, service, 0) > recovery_time
       THEN [cb |-> [cb EXCEPT !.state = Put(cb.state, service, "HALF_OPEN"),
                               !.failure_counts = Put(cb.failure_counts, service, 0)],
             ret |-> TRUE]
       ELSE [cb |-> cb, ret |-> FALSE]
  ELSE [cb |-> cb, ret |-> TRUE]

\* CircuitBreaker.allow_request at clock value t: the breaker afterwards and
\* the value returned
allow_request(cb, service, t) ==
  IF get_state(cb, service) = "OPEN"
  THEN IF t - Get(cb.last_failure_time, service, 0) > recovery_time
       THEN [cb |-> [cb EXCEPT !.state = Put(cb.state, service, "HALF_OPEN")],
             ret |-> TRUE]
       ELSE [cb |-> cb, ret |-> FALSE]
  ELSE [cb |-> cb, ret |-> TRUE]

\* record_success that resets the count and forgets to close the breaker
record_success_keeps_state(cb, service) ==
  [cb EXCEPT !.failure_counts = Put(cb.failure_counts, service, 0)]

\* record_success that clears the whole failure_counts dict
record_success_clears_all(cb, service) ==
  [cb EXCEPT !.failure_counts = [x \in DOMAIN cb.failure_counts \cup {service} |-> 0],
             !.state = Put(cb.state, service, "CLOSED")]

\* CircuitBreaker.record_success
record_success(cb, service) ==
  [cb EXCEPT !.failure_counts = Put(cb.failure_counts, service, 0),
             !.state = Put(cb.state, service, "CLOSED")]

\* record_failure that trips only past the threshold (> for >=)
record_failure_trips_late(cb, service, t) ==
  LET count == Get(cb.failure_counts, service, 0) + 1
  IN [state |-> IF count > failure_threshold
                THEN Put(cb.state, service, "OPEN")
                ELSE cb.state,
      failure_counts |-> Put(cb.failure_counts, service, count),
      last_failure_time |-> Put(cb.last_failure_time, service, t)]

\* CircuitBreaker.record_failure at clock value t
record_failure(cb, service, t) ==
  LET count == Get(cb.failure_counts, service, 0) + 1
  IN [state |-> IF count >= failure_threshold
                THEN Put(cb.state, service, "OPEN")
                ELSE cb.state,
      failure_counts |-> Put(cb.failure_counts, service, count),
      last_failure_time |-> Put(cb.last_failure_time, service, t)]

\* CircuitBreaker.call at clock value t, up to the service call: ret is FALSE
\* when it raises Exception("Circuit is open"), TRUE when it goes on to
\* await service.call
call_admit(cb, service, t) ==
  IF get_state(cb, service) = "OPEN"
  THEN LET time_since_failure == t - Get(cb.last_failure_time, service, 0)
       IN IF time_since_failure < recovery_time
          THEN [cb |-> cb, ret |-> FALSE]
          ELSE [cb |-> [cb EXCEPT !.state = Put(cb.state, service, "HALF_OPEN")],
                ret |-> TRUE]
  ELSE [cb |-> cb, ret |-> TRUE]

\* CircuitBreaker.call's except clause at clock value t, the service call
\* having raised: the breaker afterwards and the exception that leaves call.
\* self.failure_counts[service] += 1 reads the entry first: with no entry it
\* raises KeyError and the rest of the clause is not run.
call_except(cb, service, t) ==
  IF service \notin DOMAIN cb.failure_counts
  THEN [cb |-> cb, raises |-> "KeyError"]
  ELSE LET count == cb.failure_counts[service] + 1
       IN [cb |-> [state |-> IF count >= failure_threshold
                             THEN Put(cb.state, service, "OPEN")
                             ELSE cb.state,
                   failure_counts |-> Put(cb.failure_counts, service, count),
                   last_failure_time |-> Put(cb.last_failure_time, service, t)],
           raises |-> "e"]

\* ------------------------------------------------------------ RetryPolicy
\* Delays are counted in half seconds.  The values RetryPolicy falls back to
\* (config.ini absent): MAX_ATTEMPTS 3, BASE_DELAY 1.0 s, JITTER 0.5 s
DEFAULT_MAX_ATTEMPTS == 3
DEFAULT_BASE_DELAY == 2
DEFAULT_JITTER == 1

\* an argument of RetryPolicy(...): <<>> for None, <<n>> for the number n
PolicyArgs(lowest) == {<<>>} \cup {<<n>> : n \in lowest..MaxArg}

\* Python's "x or fallback": the fallback when x is None or 0
or_fallback(x, fallback) == IF x = <<>> \/ x[1] = 0 THEN fallback ELSE x[1]

\* RetryPolicy.__init__
NewRetryPolicy(max_attempts_arg, base_delay_arg, jitter_arg) ==
  [max_attempts |-> or_fallback(max_attempts_arg, DEFAULT_MAX_ATTEMPTS),
   base_delay |-> or_fallback(base_delay_arg, DEFAULT_BASE_DELAY),
   jitter |-> or_fallback(jitter_arg, DEFAULT_JITTER)]

RECURSIVE Pow2(_)
Pow2(n) == IF n = 0 THEN 1 ELSE 2 * Pow2(n - 1)

\* execute_with_retry: delay = base_delay * (2 ** attempt) + random.uniform(0, jitter),
\* u being what random.uniform gave
retry_delay(policy, a, u) == policy.base_delay * Pow2(a) + u

PolicyInit ==
  /\ given = [max_attempts |-> <<>>, base_delay |-> <<>>, jitter |-> <<>>]
  /\ retry_policy = NewRetryPolicy(<<>>, <<>>, <<>>)
  /\ delay = <<>>

\* ------------------------------------------------ ExternalAPIService.request
\* How a request with a supported method can end once it has suspended:
\*   ok              a body is returned (from the cache or a 2xx answer)
\*   unhealthy       the pre-flight health probe reported overall_status False
\*   timeout         asyncio.TimeoutError inside the HTTP exchange
\*   transport       aiohttp.ClientConnectionError inside the HTTP exchange
\*   response_error  raise_for_status() raised aiohttp.ClientResponseError
Failures == {"unhealthy", "timeout", "transport", "response_error"}

\* The exception classes involved, each with its base classes (itself included)
Bases(cls) ==
  CASE cls = "ValueError" -> {"ValueError", "Exception"}
    [] cls = "ConnectionError" -> {"ConnectionError", "OSError", "Exception"}
    [] cls = "asyncio.TimeoutError" -> {"asyncio.TimeoutError", "Exception"}
    [] cls = "aiohttp.ClientConnectionError" ->
         {"aiohttp.ClientConnectionError", "aiohttp.ClientError", "Exception"}
    [] cls = "aiohttp.ClientResponseError" ->
         {"aiohttp.ClientResponseError", "aiohttp.ClientError", "Exception"}
    [] cls = "Exception" -> {"Exception"}
    [] cls = "asyncio.CancelledError" -> {"asyncio.CancelledError", "BaseException"}

\* What is raised inside the try block of request (lines 54-58)
raised_in_try(failure) ==
  CASE failure = "timeout" -> "asyncio.TimeoutError"
    [] failure = "transport" -> "aiohttp.ClientConnectionError"
    [] failure = "response_error" -> "aiohttp.ClientResponseError"

\* The except clauses of request (lines 63-68): the class that leaves request
request_except(cls) ==
  IF "asyncio.TimeoutError" \in Bases(cls) THEN "ConnectionError"
  ELSE IF "aiohttp.ClientError" \in Bases(cls) THEN "ConnectionError"
  ELSE cls

\* The class of the exception request raises for each way of failing
request_raises(failure) ==
  IF failure = "unhealthy" THEN "ConnectionError"
  ELSE request_except(raised_in_try(failure))

\* The method check at the top of request, before anything is awaited
method_supported(m) == m \in HTTP_METHODS

\* ------------------------------------------------------------ RetryPolicy
\* the except clause of execute_with_retry: is an exception of class cls caught
retry_catches(cls) ==
  Bases(cls) \cap {"ConnectionError", "requests.exceptions.RequestException"} # {}

\* range(self.max_attempts + 1): one attempt too many
has_next_attempt_off_by_one(a) == a + 1 <= max_attempts

\* range(self.max_attempts): is there an iteration after the one numbered a
has_next_attempt(a) == a + 1 < max_attempts

\* ------------------------------------------------------------------ Cache
\* Cache wraps cachetools.TTLCache(maxsize=100, ttl): key -> value and expiry.
\* An entry is live while the clock is before its expiry.  A run uses far fewer
\* keys than maxsize, so no entry is evicted to make room.
NewCache == EmptyDict

cache_live(ch, key, t) == key \in DOMAIN ch /\ t < ch[key].expires

\* TTLCache.expire, run before an insertion: the entries whose time is up go
expire(ch, t) == [k \in {x \in DOMAIN ch : t < ch[x].expires} |-> ch[k]]

\* Cache.get: the stored value as <<value>>, or <<>> for None
cache_get(ch, key, t) ==
  IF cache_live(ch, key, t) THEN <<ch[key].value>> ELSE <<>>

\* Cache.set writing self.cache[key] = value
cache_set_overwrites(ch, key, value, t) ==
  Put(expire(ch, t), key, [value |-> value, expires |-> t + ttl])

\* Cache.set: self.cache.setdefault(key, value)
cache_set(ch, key, value, t) ==
  IF cache_live(ch, key, t) THEN ch
  ELSE Put(expire(ch, t), key, [value |-> value, expires |-> t + ttl])

\* the truth value Python gives to what Cache.get returned ("if cached_response:")
truthy(x) == x # <<>> /\ x[1] # ""

\* cache_key = f"{method}:{endpoint}:{str(params)}:{str(data)}"
cache_key(m, endpoint, params, data) ==
  m \o ":" \o endpoint \o ":" \o params \o ":" \o data

\* ---------------------------------------------------- Service.health_check
\* what the DNS and ping steps can give for a base URL that has a hostname
HealthOutcomes == {"healthy", "dns_failed", "ping_failed"}

\* the HealthStatus health_check builds: ping runs only after DNS succeeded
health_check(o) ==
  LET dns_ok == o # "dns_failed"
      ping_status == IF dns_ok THEN o = "healthy" ELSE FALSE
  IN [dns_check |-> dns_ok, ping_check |-> ping_status,
      overall_status |-> dns_ok /\ (~dns_ok \/ ping_status)]

\* HealthStatus.__init__ at clock value t (the durations are left out)
HealthStatus(t) ==
  [timestamp |-> t,
   dns_check |-> [status |-> FALSE, message |-> ""],
   ping_check |-> [status |-> FALSE, message |-> ""],
   overall_status |-> FALSE,
   error_message |-> ""]

\* the base URLs a Service is built with: one with a hostname, one without
\* (no scheme: urlparse puts it all in the path) and one urlparse rejects
BaseUrls == {"http://host", "host", "http://[host"}

\* urlparse(self.base_url).hostname: the hostname as <<hostname>>, <<>> for
\* None; raises is the message of the ValueError urlparse raises
urlparse_hostname(url) ==
  CASE url = "http://host" -> [raises |-> "", hostname |-> <<"host">>]
    [] url = "host" -> [raises |-> "", hostname |-> <<>>]
    [] OTHER -> [raises |-> "Invalid IPv6 URL", hostname |-> <<>>]

\* what awaiting getaddrinfo can give, and what _check_dns returns for it
DnsOutcomes == {"ok", "gaierror", "timeout", "unexpected"}
check_dns(d) ==
  CASE d = "ok" -> [ok |-> TRUE, message |-> ""]
    [] d = "gaierror" -> [ok |-> FALSE, message |-> "DNS resolution failed"]
    [] d = "timeout" -> [ok |-> FALSE, message |-> "DNS resolution timed out"]
    [] OTHER -> [ok |-> FALSE, message |-> "Unexpected error during DNS resolution"]

\* what awaiting aioping.ping under wait_for can give, and what _check_ping
\* returns for it
PingOutcomes == {"ok", "high_latency", "timeout", "oserror", "unexpected"}
check_ping(p) ==
  CASE p = "ok" -> [ok |-> TRUE, message |-> ""]
    [] p = "high_latency" -> [ok |-> FALSE, message |-> "High latency detected"]
    [] p = "timeout" -> [ok |-> FALSE, message |-> "Ping timed out"]
    [] p = "oserror" -> [ok |-> FALSE, message |-> "Network error during ping"]
    [] OTHER -> [ok |-> FALSE, message |-> "Unexpected error during ping"]

\* overall_status taken from the DNS result alone
overall_status_dns_only(dns_ok, ping_status) == dns_ok

\* health_status.overall_status = dns_ok and (not dns_ok or ping_check["status"])
overall_status(dns_ok, ping_status) == dns_ok /\ (~dns_ok \/ ping_status)

\* s[-n:]
LastN(s, n) == IF Len(s) > n THEN SubSeq(s, Len(s) - n + 1, Len(s)) ELSE s

\* verify_service_health: if len(self.health_history) > 100, keep [-100:]
trim(history) ==
  IF Len(history) > HistoryLimit THEN LastN(history, HistoryLimit) ELSE history

\* no health_check call made yet
NoHealthCheck == [pc |-> "idle", health_status |-> <<>>, returned |-> <<>>]

\* -------------------------------------------- RateLimiter (Throttler.flush)
\* a flush that drops a token as soon as it is period old (>= for >)
flush_early(logs, t) == SelectSeq(logs, LAMBDA x : ~(t - x >= period))

\* the tokens older than period leave the log
flush(logs, t) == SelectSeq(logs, LAMBDA x : ~(t - x > period))

\* ------------------------------------------------- Service.request, frames
\* A task inside request has one frame per nested call of request (the 429
\* path calls self.request again); a frame is the method and params it was
\* called with.  The outcome of a task is what request returned or raised.
NoOutcome == [kind |-> "none", cls |-> "", value |-> ""]
Returned(v) == [kind |-> "returned", cls |-> "str", value |-> v]
Raised(cls, msg) == [kind |-> "raised", cls |-> cls, value |-> msg]

NewTask ==
  [pc |-> "idle", args |-> [method |-> "GET", params |-> "None"], frames |-> <<>>,
   out |-> NoOutcome, ops |-> <<>>]

ServiceInit ==
  /\ tasks = [r \in Tasks |-> NewTask]
  /\ cache = NewCache
  /\ semaphore = max_size
  /\ task_logs = <<>>
  /\ last_health_status = <<>>
  /\ issued = <<>>
  /\ hc = NoHealthCheck
  /\ health_history = <<>>
  /\ probes = <<>>

frame_key(f) == cache_key(f.method, Endpoint, f.params, Data)

\* the innermost frame of a task
Top(st) == st.frames[Len(st.frames)]

\* history: the innermost frame does the operation called name.  The program
\* only writes to the MetricsCollector, never reads it: each increment and
\* observation is kept as an operation of the task that makes it.
Op(name, f) == [op |-> name, key |-> frame_key(f), arg |-> ""]
Log(st, name) == [st EXCEPT !.ops = Append(@, Op(name, Top(st)))]

\* MetricsCollector.record_error: error_counter.labels(error_type).inc()
record_error(st, error_type) ==
  [st EXCEPT !.ops = Append(@, [Op("record_error", Top(st)) EXCEPT
                                  !.arg = error_type])]

\* leaving "with latency_histogram.time()" (one observation) and "async with
\* connection_pool" (the slot goes back)
leave_pool(st) ==
  [Log(st, "observe_latency") EXCEPT !.semaphore = @ + 1]

\* The innermost frame returns v, from the network (after cache.set, leaving
\* its pool block) or from its cache; the frame that called it, if any, takes
\* v as the result of _handle_response and returns it the network way.
RECURSIVE frame_returns(_, _, _, _)
frame_returns(st, v, from_network, t) ==
  LET st1 == IF from_network
             THEN leave_pool(Log([st EXCEPT !.cache =
                                    cache_set(@, frame_key(Top(st)), v, t)],
                                 "cache_set"))
             ELSE st
  IN IF Len(st.frames) = 1
     THEN [st1 EXCEPT !.pc = "returned", !.out = Returned(v), !.frames = <<>>]
     ELSE frame_returns([st1 EXCEPT !.frames = SubSeq(@, 1, Len(@) - 1)],
                        v, TRUE, t)

\* an exception leaving the frames without releasing their pool slots
RECURSIVE frame_raises_keeps_slot(_, _, _)
frame_raises_keeps_slot(st, e, in_pool) ==
  IF Len(st.frames) = 1
  THEN [st EXCEPT !.pc = "raised", !.out = e, !.frames = <<>>]
  ELSE frame_raises_keeps_slot([st EXCEPT !.frames = SubSeq(@, 1, Len(@) - 1)],
                               Raised(request_except(e.cls), e.value), TRUE)

\* The innermost frame raises e, inside its pool block or before it; in the
\* frames that called it e passes the except clauses of request when they do
\* not catch its class, leaving each pool block.
RECURSIVE frame_raises(_, _, _)
frame_raises(st, e, in_pool) ==
  LET st1 == IF in_pool THEN leave_pool(st) ELSE st
  IN IF Len(st.frames) = 1
     THEN [st1 EXCEPT !.pc = "raised", !.out = e, !.frames = <<>>]
     ELSE frame_raises([st1 EXCEPT !.frames = SubSeq(@, 1, Len(@) - 1)],
                       Raised(request_except(e.cls), e.value), TRUE)

\* the issue times that lie in the window of length period ending at t
InWindow(times, t) == SelectSeq(times, LAMBDA x : t - x <= period)

\* "async with self.rate_limiter": Throttler.acquire, and with the token the
\* HTTP request is issued
enter_rate_limiter(st, t) ==
  LET logs == flush(st.task_logs, t)
  IN IF Len(logs) < rate_limit
     THEN Log(Log([st EXCEPT !.task_logs = Append(logs, t), !.pc = "http",
                             !.issued = Append(InWindow(@, t), t)],
                  "token"), "http")
     ELSE [st EXCEPT !.task_logs = logs, !.pc = "rate_wait"]

\* a pool that hands out a slot whether or not one is free
enter_connection_pool_unbounded(st, t) ==
  enter_rate_limiter(Log([st EXCEPT !.semaphore = @ - 1], "pool"), t)

\* "async with self.connection_pool": Semaphore.acquire
enter_connection_pool(st, t) ==
  IF st.semaphore > 0
  THEN enter_rate_limiter(Log([st EXCEPT !.semaphore = @ - 1], "pool"), t)
  ELSE [st EXCEPT !.pc = "pool_wait"]

\* request with the cache consulted whatever the probe said
after_health_check_cache_first(st, healthy, t) ==
  LET cached_response == cache_get(st.cache, frame_key(Top(st)), t)
      st1 == Log(st, "cache_get")
  IN IF truthy(cached_response)
     THEN frame_returns(st1, cached_response[1], FALSE, t)
     ELSE IF ~healthy
     THEN frame_raises(st1, Raised("ConnectionError", "Service is unhealthy"), FALSE)
     ELSE enter_connection_pool(st1, t)

\* request once health_check has returned: the health gate, the cache lookup,
\* then the network path up to the next suspension
after_health_check(st, healthy, t) ==
  IF ~healthy
  THEN frame_raises(st, Raised("ConnectionError", "Service is unhealthy"), FALSE)
  ELSE LET cached_response == cache_get(st.cache, frame_key(Top(st)), t)
           st1 == Log(st, "cache_get")
       IN IF truthy(cached_response)
          THEN frame_returns(st1, cached_response[1], FALSE, t)
          ELSE enter_connection_pool(st1, t)

\* what the awaited HTTP exchange can give: a body with a status below 400, a
\* 429, or one of the failures of the try block
Responses ==
  [kind : {"2xx"}, body : Bodies]
    \cup [kind : {"429", "response_error", "timeout", "transport"}, body : {""}]

\* _handle_response and the except clauses of request for a failed exchange
http_fails(st, failure) ==
  LET cls == raised_in_try(failure)
      st1 == IF failure = "response_error"
             THEN record_error(st, "response_error") ELSE st
      st2 == IF "asyncio.TimeoutError" \in Bases(cls)
             THEN record_error(st1, "timeout")
             ELSE IF "aiohttp.ClientError" \in Bases(cls)
             THEN record_error(st1, "client_error")
             ELSE st1
  IN frame_raises(st2, Raised(request_except(cls), failure), TRUE)

\* -------------------------------------------------------- FailoverManager
Body(service) == [kind |-> "body", from |-> service]
\* the two exceptions execute raises; cause is what the exception carries
\* (__cause__ / __context__, as class names): both are raised outside any
\* except block and without "from"
NoServicesRegistered == [kind |-> "No services registered.", cause |-> <<>>]
AllServicesFailed == [kind |-> "All services failed.", cause |-> <<>>]
Nothing == [kind |-> "none"]

NoRecorded == [s \in Services |-> 0]

\* The exceptions that reach the except clause of execute, with what each
\* carries.  request raises ValueError before its first await; the
\* ConnectionError of an except clause of request has the caught exception as
\* context; execute_with_retry raises after its loop, outside the except block.
NoError == [cls |-> "none", msg |-> "", cause |-> <<>>]
UnsupportedMethod ==
  [cls |-> "ValueError", msg |-> "Unsupported HTTP method", cause |-> <<>>]
RequestError(failure) ==
  [cls |-> request_raises(failure), msg |-> failure,
   cause |-> IF failure = "unhealthy" THEN <<>> ELSE <<raised_in_try(failure)>>]
MaxRetryAttemptsReached ==
  [cls |-> "Exception", msg |-> "Max retry attempts reached.", cause |-> <<>>]

\* the except branch of execute: e is caught, record_failure for the Service
\* at position i
on_failure(st, i, t, e) ==
  [st EXCEPT !.cb = record_failure(st.cb, services[i], t),
             !.error = e,
             !.visited = Append(@, "failed"),
             !.recorded = [@ EXCEPT ![services[i]] = @ + 1]]

\* the loop with a failure recorded for a Service the breaker refuses
RECURSIVE iterate_recording_skips(_, _, _, _)
iterate_recording_skips(st, i, m, t) ==
  IF i > Len(services)
  THEN [st EXCEPT !.pc = "raised", !.result = AllServicesFailed, !.idx = 0,
                  !.attempt = 0, !.invocations = 0, !.sleeps = 0,
                  !.admitted = "none"]
  ELSE LET a == allow_request(st.cb, services[i], t)
       IN IF ~a.ret
          THEN iterate_recording_skips(
                 [st EXCEPT !.cb = record_failure(a.cb, services[i], t),
                            !.visited = Append(@, "skipped")],
                 i + 1, m, t)
          ELSE IF ~method_supported(m)
          THEN iterate_recording_skips(
                 on_failure([st EXCEPT !.cb = a.cb], i, t, UnsupportedMethod),
                 i + 1, m, t)
          ELSE [st EXCEPT !.cb = a.cb, !.pc = "request", !.idx = i, !.attempt = 0,
                          !.invocations = 1, !.sleeps = 0,
                          !.admitted = get_state(a.cb, services[i])]

\* The for loop of execute, entered at position i of services, run until the
\* task suspends inside a request or the loop ends.  st holds the breaker and
\* the call's fields.  A request with an unsupported method raises ValueError
\* at once; execute_with_retry does not catch it and execute records a failure.
RECURSIVE iterate(_, _, _, _)
iterate(st, i, m, t) ==
  IF i > Len(services)
  THEN [st EXCEPT !.pc = "raised", !.result = AllServicesFailed, !.idx = 0,
                  !.attempt = 0, !.invocations = 0, !.sleeps = 0,
                  !.admitted = "none"]
  ELSE LET a == allow_request(st.cb, services[i], t)
       IN IF ~a.ret
          THEN iterate([st EXCEPT !.cb = a.cb, !.visited = Append(@, "skipped")],
                       i + 1, m, t)
          ELSE IF ~method_supported(m)
          THEN iterate(on_failure([st EXCEPT !.cb = a.cb], i, t, UnsupportedMethod),
                       i + 1, m, t)
          ELSE [st EXCEPT !.cb = a.cb, !.pc = "request", !.idx = i, !.attempt = 0,
                          !.invocations = 1, !.sleeps = 0,
                          !.admitted = get_state(a.cb, services[i])]

\* the fields of call c and the breaker, as iterate takes them
Fields(c) ==
  [cb |-> circuit_breaker, pc |-> pc[c], idx |-> idx[c], attempt |-> attempt[c],
   result |-> result[c], visited |-> visited[c], invocations |-> invocations[c],
   sleeps |-> sleeps[c], recorded |-> recorded[c],
   admitted |-> admitted[c], error |-> error[c]]

\* write st back to call c
Store(c, st) ==
  /\ circuit_breaker' = st.cb
  /\ pc' = [pc EXCEPT ![c] = st.pc]
  /\ idx' = [idx EXCEPT ![c] = st.idx]
  /\ attempt' = [attempt EXCEPT ![c] = st.attempt]
  /\ result' = [result EXCEPT ![c] = st.result]
  /\ visited' = [visited EXCEPT ![c] = st.visited]
  /\ invocations' = [invocations EXCEPT ![c] = st.invocations]
  /\ sleeps' = [sleeps EXCEPT ![c] = st.sleeps]
  /\ recorded' = [recorded EXCEPT ![c] = st.recorded]
  /\ admitted' = [admitted EXCEPT ![c] = st.admitted]
  /\ error' = [error EXCEPT ![c] = st.error]
  /\ UNCHANGED svars

Fresh ==
  [cb |-> circuit_breaker, pc |-> "idle", idx |-> 0, attempt |-> 0, result |-> Nothing,
   visited |-> <<>>, invocations |-> 0, sleeps |-> 0,
   recorded |-> NoRecorded, admitted |-> "none", error |-> NoError]

Finished(c) == pc[c] \in {"returned", "raised", "cancelled"}

ManagerInit ==
  /\ services = <<>>
  /\ circuit_breaker = NewCircuitBreaker
  /\ now = 0
  /\ pc = [c \in Calls |-> "idle"]
  /\ method = [c \in Calls |-> "GET"]
  /\ idx = [c \in Calls |-> 0]
  /\ attempt = [c \in Calls |-> 0]
  /\ result = [c \in Calls |-> Nothing]
  /\ visited = [c \in Calls |-> <<>>]
  /\ invocations = [c \in Calls |-> 0]
  /\ sleeps = [c \in Calls |-> 0]
  /\ recorded = [c \in Calls |-> NoRecorded]
  /\ admitted = [c \in Calls |-> "none"]
  /\ error = [c \in Calls |-> NoError]

Init ==
  /\ ManagerInit
  /\ ServiceInit
  /\ PolicyInit
  /\ base_url = "http://host"

\* FailoverManager.register_service
register_service(service) ==
  /\ \A i \in 1..Len(services) : services[i] # service
  /\ services' = Append(services, service)
  /\ UNCHANGED <<circuit_breaker, now, pc, method, idx, attempt, result, visited,
                 invocations, sleeps, recorded, admitted, error, svars>>

\* execute without its "if not self.services" guard
execute_unguarded(c, m) ==
  /\ pc[c] = "idle"
  /\ method' = [method EXCEPT ![c] = m]
  /\ Store(c, iterate(Fresh, 1, m, now))
  /\ UNCHANGED <<services, now>>

\* FailoverManager.execute called with method m, up to its first suspension
execute(c, m) ==
  /\ pc[c] = "idle"
  /\ method' = [method EXCEPT ![c] = m]
  /\ IF Len(services) = 0
     THEN Store(c, [Fresh EXCEPT !.pc = "raised", !.result = NoServicesRegistered])
     ELSE Store(c, iterate(Fresh, 1, m, now))
  /\ UNCHANGED <<services, now>>

\* execute without its "return result": the loop goes on after a success
request_returns_and_goes_on(c) ==
  /\ pc[c] = "request"
  /\ Store(c, iterate([Fields(c) EXCEPT
                         !.cb = record_success(circuit_breaker, services[idx[c]]),
                         !.result = Body(services[idx[c]]),
                         !.visited = Append(@, "ok")],
                      idx[c] + 1, method[c], now))
  /\ UNCHANGED <<services, now, method>>

\* the awaited request returns a body: execute_with_retry returns it, execute
\* records the success and returns
request_returns(c) ==
  /\ pc[c] = "request"
  /\ Store(c, [Fields(c) EXCEPT
                 !.cb = record_success(circuit_breaker, services[idx[c]]),
                 !.pc = "returned",
                 !.result = Body(services[idx[c]]),
                 !.visited = Append(@, "ok")])
  /\ UNCHANGED <<services, now, method>>

\* a failure recorded against the breaker on every failed attempt
request_fails_recording_each(c, failure) ==
  /\ pc[c] = "request"
  /\ IF retry_catches(request_raises(failure))
     THEN Store(c, [Fields(c) EXCEPT
                      !.cb = record_failure(circuit_breaker, services[idx[c]], now),
                      !.pc = "sleep", !.sleeps = @ + 1])
     ELSE Store(c, iterate(on_failure(Fields(c), idx[c], now, RequestError(failure)),
                           idx[c] + 1, method[c], now))
  /\ UNCHANGED <<services, now, method>>

\* the awaited request raises: execute_with_retry either catches the exception
\* and starts the backoff sleep, or lets it through to execute, which records
\* the failure and goes on with the next Service
request_fails(c, failure) ==
  /\ pc[c] = "request"
  /\ IF retry_catches(request_raises(failure))
     THEN Store(c, [Fields(c) EXCEPT !.pc = "sleep", !.sleeps = @ + 1])
     ELSE Store(c, iterate(on_failure(Fields(c), idx[c], now, RequestError(failure)),
                           idx[c] + 1, method[c], now))
  /\ UNCHANGED <<services, now, method>>

\* the backoff sleep ends: the next attempt calls request again, or the loop of
\* execute_with_retry is over and it raises Exception("Max retry attempts
\* reached."), which execute records as the Service's failure
sleep_done(c) ==
  /\ pc[c] = "sleep"
  /\ IF has_next_attempt(attempt[c])
     THEN Store(c, [Fields(c) EXCEPT !.pc = "request", !.attempt = @ + 1,
                                     !.invocations = @ + 1])
     ELSE Store(c, iterate(on_failure(Fields(c), idx[c], now, MaxRetryAttemptsReached),
                           idx[c] + 1, method[c], now))
  /\ UNCHANGED <<services, now, method>>

\* a cancellation that execute's except clause takes for a failure
cancel_counts_failure(c) ==
  /\ pc[c] \in {"request", "sleep"}
  /\ Store(c, [on_failure(Fields(c), idx[c], now, error[c]) EXCEPT
                 !.pc = "cancelled", !.idx = 0, !.attempt = 0, !.invocations = 0,
                 !.sleeps = 0, !.admitted = "none"])
  /\ UNCHANGED <<services, now, method>>

\* the caller cancels the task while it is suspended: asyncio.CancelledError is
\* not an Exception, so neither except clause catches it
cancel(c) ==
  /\ pc[c] \in {"request", "sleep"}
  /\ Store(c, [Fresh EXCEPT !.pc = "cancelled", !.visited = visited[c],
                            !.recorded = recorded[c], !.error = error[c]])
  /\ UNCHANGED <<services, now, method>>

\* the caller has the outcome of its await: the call slot is free for the
\* caller's next execute
collect(c) ==
  /\ Finished(c)
  /\ Store(c, Fresh)
  /\ method' = [method EXCEPT ![c] = "GET"]
  /\ UNCHANGED <<services, now>>

\* time passes
Tick ==
  /\ now < MaxTime
  /\ now' = now + 1
  /\ UNCHANGED <<services, circuit_breaker, pc, method, idx, attempt, result,
                 visited, invocations, sleeps, recorded, admitted, error, svars>>

Next ==
  \/ \E s \in Services : register_service(s)
  \/ \E c \in Calls, m \in Methods : execute(c, m)
  \/ \E c \in Calls : request_returns(c)
  \/ \E c \in Calls, f \in Failures : request_fails(c, f)
  \/ \E c \in Calls : sleep_done(c)
  \/ \E c \in Calls : cancel(c)
  \/ \E c \in Calls : collect(c)
  \/ Tick

Spec == Init /\ [][Next]_vars

\* Sequential use: one caller that awaits each execute before the next
SeqNext ==
  \/ \E s \in Services : register_service(s)
  \/ \E m \in Methods : execute(1, m)
  \/ request_returns(1)
  \/ \E f \in Failures : request_fails(1, f)
  \/ sleep_done(1)
  \/ cancel(1)
  \/ collect(1)
  \/ Tick

SeqSpec == Init /\ [][SeqNext]_vars

\* ------------------------------------------------- Service.request, actions
\* the manager's variables, which a request made of the Service leaves alone
mvars == <<services, circuit_breaker, pc, method, idx, attempt, result, visited,
           invocations, sleeps, recorded, admitted, error>>

\* Service.base_url and the health_check call followed step by step, which a
\* request made of the Service leaves alone
hvars == <<base_url, hc, health_history, probes, pvars>>

\* the fields of task r and of the Service, as the operators above take them
TaskFields(r) ==
  [pc |-> tasks[r].pc, args |-> tasks[r].args, frames |-> tasks[r].frames,
   out |-> tasks[r].out, ops |-> tasks[r].ops, cache |-> cache,
   semaphore |-> semaphore, task_logs |-> task_logs, issued |-> issued]

\* write st back to task r and the Service
TaskStore(r, st) ==
  /\ tasks' = [tasks EXCEPT ![r] = [pc |-> st.pc, args |-> st.args,
                                    frames |-> st.frames, out |-> st.out,
                                    ops |-> st.ops]]
  /\ cache' = st.cache
  /\ semaphore' = st.semaphore
  /\ task_logs' = st.task_logs
  /\ issued' = st.issued

\* request without its method check
request_unchecked(r, m, p) ==
  /\ tasks[r].pc = "idle"
  /\ LET f == [method |-> m, params |-> p]
     IN TaskStore(r, Log([TaskFields(r) EXCEPT !.pc = "probe", !.args = f,
                                               !.frames = <<f>>], "probe"))
  /\ UNCHANGED <<mvars, hvars, now, last_health_status>>

\* Service.request called with method m and params p, up to its first
\* suspension: the method check, then health_check is awaited
request(r, m, p) ==
  /\ tasks[r].pc = "idle"
  /\ LET f == [method |-> m, params |-> p]
     IN IF ~method_supported(m)
        THEN TaskStore(r, [TaskFields(r) EXCEPT
                             !.pc = "raised", !.args = f,
                             !.out = Raised("ValueError", "Unsupported HTTP method")])
        ELSE TaskStore(r, Log([TaskFields(r) EXCEPT !.pc = "probe", !.args = f,
                                                    !.frames = <<f>>], "probe"))
  /\ UNCHANGED <<mvars, hvars, now, last_health_status>>

\* the cache consulted before the health gate
probe_done_cache_first(r, o) ==
  /\ tasks[r].pc = "probe"
  /\ last_health_status' = <<health_check(o)>>
  /\ TaskStore(r, after_health_check_cache_first(TaskFields(r),
                                                 health_check(o).overall_status, now))
  /\ UNCHANGED <<mvars, hvars, now>>

\* health_check returns: _last_health_status is set and request goes on
probe_done(r, o) ==
  /\ tasks[r].pc = "probe"
  /\ last_health_status' = <<health_check(o)>>
  /\ TaskStore(r, after_health_check(TaskFields(r),
                                     health_check(o).overall_status, now))
  /\ UNCHANGED <<mvars, hvars, now>>

\* a slot of the pool is free for a task waiting in Semaphore.acquire
pool_acquired(r) ==
  /\ tasks[r].pc = "pool_wait"
  /\ semaphore > 0
  /\ TaskStore(r, enter_connection_pool(TaskFields(r), now))
  /\ UNCHANGED <<mvars, hvars, now, last_health_status>>

\* a task waiting in Throttler.acquire looks at the log again
throttler_retry(r) ==
  /\ tasks[r].pc = "rate_wait"
  /\ TaskStore(r, enter_rate_limiter(TaskFields(r), now))
  /\ UNCHANGED <<mvars, hvars, now, last_health_status>>

\* the HTTP exchange ends with resp: a body is cached and returned, a 429
\* starts the Retry-After sleep, a failure is counted and raised
http_done(r, resp) ==
  /\ tasks[r].pc = "http"
  /\ resp.kind = "429" => Len(tasks[r].frames) <= MaxDepth
  /\ TaskStore(r,
       CASE resp.kind = "2xx" -> frame_returns(TaskFields(r), resp.body, TRUE, now)
         [] resp.kind = "429" ->
              Log([record_error(TaskFields(r), "rate_limit") EXCEPT !.pc = "sleep429"],
                  "sleep")
         [] OTHER -> http_fails(TaskFields(r), resp.kind))
  /\ UNCHANGED <<mvars, hvars, now, last_health_status>>

\* the Retry-After sleep ends: _handle_response calls self.request(endpoint),
\* a new frame with the default method, params and data
sleep429_done(r) ==
  /\ tasks[r].pc = "sleep429"
  /\ TaskStore(r, Log([TaskFields(r) EXCEPT
                         !.pc = "probe",
                         !.frames = Append(@, [method |-> "GET", params |-> "None"])],
                      "probe"))
  /\ UNCHANGED <<mvars, hvars, now, last_health_status>>

\* the caller cancels the task at a suspension point: CancelledError leaves
\* every frame, through the pool blocks entered
cancel_request(r) ==
  /\ tasks[r].pc \in {"probe", "pool_wait", "rate_wait", "http", "sleep429"}
  /\ TaskStore(r, frame_raises(TaskFields(r), Raised("asyncio.CancelledError", ""),
                               tasks[r].pc \in {"rate_wait", "http", "sleep429"}))
  /\ UNCHANGED <<mvars, hvars, now, last_health_status>>

\* the caller has the outcome of its await
collect_request(r) ==
  /\ tasks[r].pc \in {"returned", "raised"}
  /\ tasks' = [tasks EXCEPT ![r] = NewTask]
  /\ UNCHANGED <<mvars, hvars, now, cache, semaphore, task_logs, last_health_status, issued>>

\* Requests made of one Service by concurrent tasks
ReqNext ==
  \/ \E r \in Tasks, m \in Methods, p \in Params : request(r, m, p)
  \/ \E r \in Tasks, o \in HealthOutcomes : probe_done(r, o)
  \/ \E r \in Tasks : pool_acquired(r)
  \/ \E r \in Tasks : throttler_retry(r)
  \/ \E r \in Tasks, resp \in Responses : http_done(r, resp)
  \/ \E r \in Tasks : sleep429_done(r)
  \/ \E r \in Tasks : cancel_request(r)
  \/ \E r \in Tasks : collect_request(r)
  \/ Tick

ReqSpec == Init /\ [][ReqNext]_vars

\* ------------------------------------------- Service.health_check, actions
\* the variables of the manager and of the requests, which a health_check
\* call made on its own leaves alone
rvars == <<tasks, cache, semaphore, task_logs, issued, pvars>>

\* the end of health_check: self._last_health_status = health_status, return
health_check_returns(hs) ==
  /\ last_health_status' = <<hs>>
  /\ hc' = [pc |-> "idle", health_status |-> <<>>, returned |-> <<hs>>]

\* health_check up to its first suspension: urlparse, the early return for a
\* URL without hostname, the except clause for a URL urlparse rejects, else
\* _check_dns is awaited
health_check_begin ==
  /\ hc.pc = "idle"
  /\ LET health_status == HealthStatus(now)
         parsed_url == urlparse_hostname(base_url)
     IN IF parsed_url.raises # ""
        THEN health_check_returns(
               [health_status EXCEPT
                  !.error_message = "Health check failed: " \o parsed_url.raises])
        ELSE IF parsed_url.hostname = <<>>
        THEN /\ hc' = [pc |-> "idle", health_status |-> <<>>,
                       returned |-> <<[health_status EXCEPT !.error_message =
                                        "Invalid URL format: missing hostname"]>>]
             /\ UNCHANGED last_health_status
        ELSE /\ hc' = [pc |-> "dns", health_status |-> <<health_status>>,
                       returned |-> <<>>]
             /\ UNCHANGED last_health_status
  /\ UNCHANGED <<mvars, rvars, now, health_history, probes, base_url>>

\* _check_dns returns: dns_check is filled in; with DNS resolved _check_ping
\* is awaited, else overall_status is set and health_check returns
check_dns_done(d) ==
  /\ hc.pc = "dns"
  /\ LET dns == check_dns(d)
         hs == [hc.health_status[1] EXCEPT
                  !.dns_check = [status |-> dns.ok,
                                 message |-> IF ~dns.ok THEN dns.message ELSE ""]]
     IN IF dns.ok
        THEN /\ hc' = [hc EXCEPT !.health_status = <<hs>>, !.pc = "ping"]
             /\ UNCHANGED last_health_status
        ELSE health_check_returns(
               [hs EXCEPT !.overall_status =
                            overall_status(dns.ok, hs.ping_check.status)])
  /\ UNCHANGED <<mvars, rvars, now, health_history, probes, base_url>>

\* _check_ping returns: ping_check is filled in, overall_status is set and
\* health_check returns
check_ping_done(p) ==
  /\ hc.pc = "ping"
  /\ LET ping == check_ping(p)
         hs == [hc.health_status[1] EXCEPT
                  !.ping_check = [status |-> ping.ok,
                                  message |-> IF ~ping.ok THEN ping.message ELSE ""]]
     IN health_check_returns(
          [hs EXCEPT !.overall_status =
                       overall_status(hs.dns_check.status, hs.ping_check.status)])
  /\ UNCHANGED <<mvars, rvars, now, health_history, probes, base_url>>

\* the caller cancels health_check while it awaits DNS or ping: CancelledError
\* is not an Exception and leaves health_check, nothing is returned or stored
cancel_health_check ==
  /\ hc.pc \in {"dns", "ping"}
  /\ hc' = NoHealthCheck
  /\ UNCHANGED <<mvars, rvars, now, health_history, probes, base_url, last_health_status>>

\* health_check called again and again on a Service built with any base URL
HealthInit ==
  /\ ManagerInit
  /\ ServiceInit
  /\ PolicyInit
  /\ base_url \in BaseUrls

HealthNext ==
  \/ health_check_begin
  \/ \E d \in DnsOutcomes : check_dns_done(d)
  \/ \E p \in PingOutcomes : check_ping_done(p)
  \/ cancel_health_check
  \/ Tick

HealthSpec == HealthInit /\ [][HealthNext]_vars

\* --------------------------------------------- health_history, actions
\* health_check awaited by verify_service_health has returned with outcome o:
\* the status is retained, appended to health_history, and the history trimmed
verify_service_health(o) ==
  /\ last_health_status' = <<health_check(o)>>
  /\ health_history' = trim(Append(health_history, health_check(o)))
  /\ probes' = LastN(Append(probes, health_check(o)), HistoryLimit)
  /\ UNCHANGED <<mvars, rvars, now, base_url, hc>>

\* health_check awaited by request (its pre-flight probe) has returned with
\* outcome o: the status is retained and request looks at overall_status
request_health_check(o) ==
  /\ last_health_status' = <<health_check(o)>>
  /\ probes' = LastN(Append(probes, health_check(o)), HistoryLimit)
  /\ UNCHANGED <<mvars, rvars, now, base_url, hc, health_history>>

\* The probes run on one Service, by verify_service_health and by request
HistoryNext ==
  \/ \E o \in HealthOutcomes : verify_service_health(o)
  \/ \E o \in HealthOutcomes : request_health_check(o)

HistorySpec == Init /\ [][HistoryNext]_vars

\* ------------------------------------------------- RetryPolicy, actions
\* the variables a RetryPolicy looked at on its own leaves alone
qvars == <<mvars, now, tasks, cache, semaphore, task_logs, last_health_status,
           issued, base_url, hc, health_history, probes>>

\* RetryPolicy(max_attempts, base_delay, jitter)
new_retry_policy(max_attempts_arg, base_delay_arg, jitter_arg) ==
  /\ retry_policy' = NewRetryPolicy(max_attempts_arg, base_delay_arg, jitter_arg)
  /\ given' = [max_attempts |-> max_attempts_arg, base_delay |-> base_delay_arg,
               jitter |-> jitter_arg]
  /\ delay' = <<>>
  /\ UNCHANGED qvars

\* attempt number a of execute_with_retry has failed with an error the policy
\* retries: the wait before the next attempt is computed, u drawn by
\* random.uniform(0, jitter)
retry_wait(a, u) ==
  /\ a \in 0..(retry_policy.max_attempts - 1)
  /\ u \in 0..retry_policy.jitter
  /\ delay' = <<[attempt |-> a, delay |-> retry_delay(retry_policy, a, u)]>>
  /\ UNCHANGED <<qvars, retry_policy, given>>

PolicyNext ==
  \/ \E ma \in PolicyArgs(1), bd \in PolicyArgs(0), j \in PolicyArgs(0) :
       new_retry_policy(ma, bd, j)
  \/ \E a \in 0..(DEFAULT_MAX_ATTEMPTS + MaxArg), u \in 0..(DEFAULT_JITTER + MaxArg) :
       retry_wait(a, u)

PolicySpec == Init /\ [][PolicyNext]_vars

\* ------------------------------------------------------------------ claims
Registered == {services[i] : i \in 1..Len(services)}

InFlight(c) == pc[c] \in {"request", "sleep"}

\* in this step call c resolved its consultation of service s with outcome kind
Appended(c, s, kind) ==
  \E j \in (Len(visited[c]) + 1)..Len(visited'[c]) :
    visited'[c][j] = kind /\ services[j] = s

\* the three breaker fields of a Service, with the dicts' defaults
BreakerRecord(cb, s) ==
  <<get_state(cb, s), get_failure_count(cb, s), get_last_failure_time(cb, s)>>

\* C1: execute consults the registered Services strictly in registration
\* order, one at a time: the Service a call is suspended on is the one right
\* after those it has already skipped or seen fail, and a returned body comes
\* from the earliest position whose attempt did not fail; no position after
\* that one was consulted (no entry of visited, no record_failure).
C1_OrderedFailover ==
  \A c \in Calls :
    LET n == Len(visited[c]) IN
    /\ n <= Len(services)
    /\ InFlight(c) =>
         /\ idx[c] = n + 1
         /\ \A j \in 1..n : visited[c][j] \in {"skipped", "failed"}
    /\ pc[c] = "returned" =>
         /\ n >= 1
         /\ visited[c][n] = "ok"
         /\ result[c] = Body(services[n])
         /\ \A j \in 1..(n - 1) : visited[c][j] \in {"skipped", "failed"}
         /\ \A j \in (n + 1)..Len(services) : recorded[c][services[j]] = 0
    /\ pc[c] = "raised" => result[c] \in {NoServicesRegistered, AllServicesFailed}

\* a body returned by the second Service after the first one failed, with a
\* third consultation impossible
C1_Witness ==
  \E c \in Calls :
    /\ pc[c] = "returned"
    /\ Len(services) = 2
    /\ visited[c] = <<"failed", "ok">>
    /\ result[c] = Body(services[2])

\* what one step does to the failure_count of s: reset by the success of a
\* call on s, raised by one by a call whose attempt on s ended in a terminal
\* error, and left alone otherwise (backoff sleeps and retries included)
CountAccounted(s) ==
  get_failure_count(circuit_breaker', s) =
    IF \E c \in Calls : Appended(c, s, "ok") THEN 0
    ELSE IF \E c \in Calls : Appended(c, s, "failed")
         THEN get_failure_count(circuit_breaker, s) + 1
         ELSE get_failure_count(circuit_breaker, s)

\* call c fails with AllServicesFailed in this step
FailsNow(c) ==
  pc[c] # "raised" /\ pc'[c] = "raised" /\ result'[c] = AllServicesFailed

\* C2 as stated: one record_failure per failed Service per execute whatever the
\* number of attempts, and when an execute fails with AllServicesFailed every
\* registered Service has failure_count >= 1.
C2_Original ==
  [][/\ \A s \in Services : CountAccounted(s)
     /\ \A c \in Calls : \A s \in Services : recorded'[c][s] <= 1
     /\ \A c \in Calls :
          FailsNow(c) =>
            \A s \in Registered : get_failure_count(circuit_breaker', s) >= 1]_vars

\* C2 (amended): one record_failure per failed Service per execute whatever the
\* number of attempts (failure_count grows by exactly 1); a call that fails
\* with AllServicesFailed has skipped or failed every registered Service, and
\* each had failure_count >= 1 when the call moved past it.  A success that a
\* concurrent call records afterwards may have reset a count to 0 by the time
\* the call fails.
C2_OneFailurePerService ==
  [][/\ \A s \in Services : CountAccounted(s)
     /\ \A c \in Calls : \A s \in Services : recorded'[c][s] <= 1
     /\ \A c \in Calls : \A s \in Registered :
          (Appended(c, s, "failed") \/ Appended(c, s, "skipped")) =>
            /\ get_failure_count(circuit_breaker', s) >= 1
            /\ recorded'[c][s] = (IF Appended(c, s, "failed") THEN 1 ELSE 0)
     /\ \A c \in Calls :
          FailsNow(c) =>
            /\ Len(visited'[c]) = Len(services)
            /\ \A j \in 1..Len(services) :
                 visited'[c][j] \in {"skipped", "failed"}]_vars

\* an execute with a supported method (so every failed attempt was retried)
\* has failed on both Services, each with one record_failure
C2_Witness ==
  \E c \in Calls :
    /\ pc[c] = "raised"
    /\ result[c] = AllServicesFailed
    /\ method[c] \in HTTP_METHODS
    /\ visited[c] = <<"failed", "failed">>
    /\ \A s \in Registered : recorded[c][s] = 1

\* C3: for a Service whose breaker is CLOSED, a recorded failure raises
\* failure_count by one and stamps the time, the breaker is OPEN afterwards
\* exactly when the count has reached failure_threshold and CLOSED while it is
\* below; the count otherwise only changes by a recorded success, which resets
\* it to 0, so a trip takes failure_threshold failures with no success between.
C3_ClosedCountsToThreshold ==
  [][\A s \in Services :
       get_state(circuit_breaker, s) = "CLOSED" =>
         LET n == get_failure_count(circuit_breaker, s)
             n2 == get_failure_count(circuit_breaker', s)
             st2 == get_state(circuit_breaker', s)
         IN IF \E c \in Calls : Appended(c, s, "failed")
            THEN /\ n2 = n + 1
                 /\ get_last_failure_time(circuit_breaker', s) = now
                 /\ (st2 = "OPEN") <=> (n2 = failure_threshold)
                 /\ n2 < failure_threshold => st2 = "CLOSED"
            ELSE /\ st2 = "CLOSED"
                 /\ n2 = n \/ (n2 = 0 /\ \E c \in Calls : Appended(c, s, "ok"))]_vars

\* a breaker that has just tripped on its failure_threshold-th failure
C3_Witness ==
  \E c \in Calls : \E j \in 1..Len(visited[c]) :
    /\ j <= Len(services)
    /\ visited[c][j] = "failed"
    /\ get_state(circuit_breaker, services[j]) = "OPEN"
    /\ get_failure_count(circuit_breaker, services[j]) = failure_threshold
    /\ get_last_failure_time(circuit_breaker, services[j]) = now

\* what allow_request(s) does in the current state, as C4 states it
AllowRequestContract(s) ==
  LET a == allow_request(circuit_breaker, s, now)
      elapsed == now - get_last_failure_time(circuit_breaker, s)
  IN IF get_state(circuit_breaker, s) = "OPEN"
     THEN IF elapsed <= recovery_time
          THEN ~a.ret /\ a.cb = circuit_breaker
          ELSE /\ a.ret
               /\ get_state(a.cb, s) = "HALF_OPEN"
               /\ a.cb.failure_counts = circuit_breaker.failure_counts
               /\ a.cb.last_failure_time = circuit_breaker.last_failure_time
               /\ \A o \in Services \ {s} :
                    BreakerRecord(a.cb, o) = BreakerRecord(circuit_breaker, o)
     ELSE a.ret /\ a.cb = circuit_breaker

\* in this step call c was admitted to a Service and suspended in its request
Admitted(c) ==
  /\ pc'[c] = "request"
  /\ pc[c] = "idle" \/ (InFlight(c) /\ idx'[c] # idx[c])

InsideWindow(s) ==
  /\ get_state(circuit_breaker, s) = "OPEN"
  /\ now - get_last_failure_time(circuit_breaker, s) <= recovery_time

\* C4: allow_request on an OPEN breaker returns False and changes nothing while
\* now - last_failure_time <= recovery_time, and returns True leaving the
\* breaker HALF_OPEN (nothing else changed) once the difference exceeds
\* recovery_time; on a CLOSED or HALF_OPEN breaker, and for a Service with no
\* record, it returns True and changes nothing.  Stated of the function in
\* every reachable state and of the admissions and refusals execute makes.
C4_AllowRequest ==
  [][/\ \A s \in Services : AllowRequestContract(s)
     /\ \A c \in Calls : \A s \in Registered :
          Appended(c, s, "skipped") =>
            /\ InsideWindow(s)
            /\ BreakerRecord(circuit_breaker', s) = BreakerRecord(circuit_breaker, s)
     /\ \A c \in Calls :
          Admitted(c) =>
            LET s == services[idx'[c]] IN
            /\ ~InsideWindow(s)
            /\ admitted'[c] = get_state(circuit_breaker', s)
            /\ IF get_state(circuit_breaker, s) = "OPEN"
               THEN /\ admitted'[c] = "HALF_OPEN"
                    /\ get_failure_count(circuit_breaker', s)
                         = get_failure_count(circuit_breaker, s)
                    /\ get_last_failure_time(circuit_breaker', s)
                         = get_last_failure_time(circuit_breaker, s)
               ELSE BreakerRecord(circuit_breaker', s)
                      = BreakerRecord(circuit_breaker, s)]_vars

\* one call was refused by an OPEN breaker inside the recovery window and another
\* is suspended on a Service it was admitted to past the window, now HALF_OPEN
C4_Witness ==
  /\ \E c \in Calls : Len(visited[c]) >= 1 /\ visited[c][1] = "skipped"
  /\ \E c \in Calls :
       /\ InFlight(c)
       /\ admitted[c] = "HALF_OPEN"
       /\ get_state(circuit_breaker, services[idx[c]]) = "HALF_OPEN"

\* call c starts an execute in this step
Starts(c) == pc[c] = "idle" /\ pc'[c] # "idle"

\* C5 (calls made one after another): once the first Service has failed in
\* failure_threshold executes in a row its breaker is not CLOSED; an execute
\* started while it is OPEN inside the recovery window skips it, leaves its
\* record alone and goes to the next Service; an execute started once more than
\* recovery_time has elapsed is admitted to it with the breaker HALF_OPEN; and
\* a success of that attempt leaves the breaker CLOSED with failure_count 0.
C5_TripAndRecover ==
  [][/\ \A s \in Services :
          get_failure_count(circuit_breaker, s) >= failure_threshold
            => get_state(circuit_breaker, s) \in {"OPEN", "HALF_OPEN"}
     /\ \A c \in Calls :
          (Starts(c) /\ Len(services) >= 1
             /\ get_state(circuit_breaker, services[1]) = "OPEN") =>
            LET s1 == services[1] IN
            IF now - get_last_failure_time(circuit_breaker, s1) <= recovery_time
            THEN /\ visited'[c][1] = "skipped"
                 /\ BreakerRecord(circuit_breaker', s1) = BreakerRecord(circuit_breaker, s1)
                 /\ (Len(services) >= 2 /\ method_supported(method'[c])
                       /\ get_state(circuit_breaker, services[2]) # "OPEN")
                      => (pc'[c] = "request" /\ idx'[c] = 2)
            ELSE method_supported(method'[c]) =>
                   /\ pc'[c] = "request" /\ idx'[c] = 1
                   /\ admitted'[c] = "HALF_OPEN"
                   /\ get_state(circuit_breaker', s1) = "HALF_OPEN"
     /\ \A c \in Calls :
          (pc[c] = "request" /\ pc'[c] = "returned") =>
            /\ get_state(circuit_breaker', services[idx[c]]) = "CLOSED"
            /\ get_failure_count(circuit_breaker', services[idx[c]]) = 0]_vars

\* the whole sequence has happened: the first Service tripped, an execute
\* went to the second Service, and after the recovery window an execute was
\* admitted to the first Service in HALF_OPEN and got its body
C5_Witness ==
  /\ Len(services) = 2
  /\ pc[1] = "returned"
  /\ admitted[1] = "HALF_OPEN"
  /\ result[1] = Body(services[1])
  /\ get_state(circuit_breaker, services[1]) = "CLOSED"
  /\ get_failure_count(circuit_breaker, services[1]) = 0
  /\ services[2] \in DOMAIN circuit_breaker.state

\* C6: record_success(service) sets that Service's failure_count to 0 and its
\* state to CLOSED and leaves last_failure_time and the record of every other
\* Service unchanged.
C6_RecordSuccessFrame ==
  [][\A c \in Calls :
       (pc[c] = "request" /\ pc'[c] = "returned") =>
         LET s == services[idx[c]] IN
         /\ get_failure_count(circuit_breaker', s) = 0
         /\ get_state(circuit_breaker', s) = "CLOSED"
         /\ circuit_breaker'.last_failure_time = circuit_breaker.last_failure_time
         /\ \A o \in Services \ {s} :
              /\ BreakerRecord(circuit_breaker', o) = BreakerRecord(circuit_breaker, o)
              /\ (o \in DOMAIN circuit_breaker'.state) = (o \in DOMAIN circuit_breaker.state)
              /\ (o \in DOMAIN circuit_breaker'.failure_counts)
                   = (o \in DOMAIN circuit_breaker.failure_counts)]_vars

\* a success recorded in HALF_OPEN closed the breaker and kept the time of the
\* last failure, while the other Service keeps a count of its own
C6_Witness ==
  \E c \in Calls :
    /\ pc[c] = "returned"
    /\ admitted[c] = "HALF_OPEN"
    /\ LET s == result[c].from IN
       /\ get_state(circuit_breaker, s) = "CLOSED"
       /\ get_failure_count(circuit_breaker, s) = 0
       /\ s \in DOMAIN circuit_breaker.last_failure_time
       /\ \E o \in Services \ {s} : get_failure_count(circuit_breaker, o) >= 1

\* C7 as stated: a failure recorded for a Service whose breaker is HALF_OPEN
\* moves it to OPEN, stamps last_failure_time with the current time and leaves
\* failure_count as it was.
C7_HalfOpenFailureKeepsCount ==
  [][\A c \in Calls : \A s \in Registered :
       (get_state(circuit_breaker, s) = "HALF_OPEN" /\ Appended(c, s, "failed")) =>
         /\ get_state(circuit_breaker', s) = "OPEN"
         /\ get_last_failure_time(circuit_breaker', s) = now
         /\ get_failure_count(circuit_breaker', s)
              = get_failure_count(circuit_breaker, s)]_vars

\* C8 as stated: failure_count never exceeds failure_threshold + 1.
C8_CountBounded ==
  \A s \in Services :
    get_failure_count(circuit_breaker, s) <= failure_threshold + 1

\* C9: execute_with_retry calls func at most max_attempts times; when the k-th
\* call succeeds func has been called exactly k times, with one sleep after
\* each of the k - 1 failed calls and none after the success, and the call is
\* over (nothing more is invoked).
C9_RetryBound ==
  \A c \in Calls :
    /\ invocations[c] <= max_attempts
    /\ InFlight(c) => (attempt[c] < max_attempts /\ invocations[c] = attempt[c] + 1)
    /\ pc[c] = "request" => sleeps[c] = invocations[c] - 1
    /\ pc[c] = "returned" =>
         /\ invocations[c] = attempt[c] + 1
         /\ invocations[c] \in 1..max_attempts
         /\ sleeps[c] = invocations[c] - 1
         /\ visited[c][Len(visited[c])] = "ok"

\* a body returned by the last permitted attempt, after max_attempts - 1 sleeps
C9_Witness ==
  \E c \in Calls :
    /\ pc[c] = "returned"
    /\ invocations[c] = max_attempts
    /\ sleeps[c] = max_attempts - 1

\* C10 as stated: only Transport, Timeout and Unhealthy failures are retried;
\* a call with an unsupported method is never waiting on a request or a sleep,
\* and a request that fails with ResponseError is not followed by a backoff
\* sleep: the failure is recorded for that Service in the same step.
C10_NonRetriableSurface ==
  [][\A c \in Calls :
       /\ InFlight(c)' => method_supported(method'[c])
       /\ request_fails(c, "response_error") =>
            /\ pc'[c] # "sleep"
            /\ Appended(c, services[idx[c]], "failed")]_vars

\* C11 as stated: max_attempts counts total attempts, with one sleep between
\* consecutive attempts and none after the final one, so a call never sleeps
\* more than max_attempts - 1 times for one Service.
C11_SleepsBetweenAttempts ==
  \A c \in Calls :
    /\ pc[c] = "sleep" => attempt[c] + 1 < max_attempts
    /\ sleeps[c] <= max_attempts - 1

\* C12 as stated: when the final attempt fails with a retriable error the error
\* that leaves execute_with_retry is the retries-exhausted one and it carries
\* the error raised by the last attempt (a ConnectionError).
C12_RetriesExhaustedCarriesLast ==
  [][\A c \in Calls :
       (pc[c] = "sleep" /\ Appended(c, services[idx[c]], "failed")) =>
         /\ error'[c].msg = "Max retry attempts reached."
         /\ error'[c].cause = <<"ConnectionError">>]_vars

\* C13 as stated: with at least one Service registered, a call that has
\* skipped or seen fail every registered Service has failed with
\* AllServicesFailed, and when a Service attempt raised in the call that error
\* carries the last error raised.
C13_AllFailedCarriesLast ==
  \A c \in Calls :
    /\ ( /\ Len(services) >= 1
         /\ Len(visited[c]) = Len(services)
         /\ \A j \in 1..Len(visited[c]) : visited[c][j] \in {"skipped", "failed"} )
         => (pc[c] = "raised" /\ result[c].kind = "All services failed.")
    /\ ( /\ pc[c] = "raised"
         /\ result[c].kind = "All services failed."
         /\ error[c] # NoError )
         => result[c].cause = <<error[c].cls>>

\* C14: an execute started while no Service is registered raises "No services
\* registered." in the same step; the breaker is not consulted (its three
\* dicts keep their key sets and values), execute_with_retry is not entered
\* (no invocation, no sleep, nothing visited or recorded) and nothing else
\* changes: the Service list, the clock and the other calls are as before.
C14_NoServices ==
  [][\A c \in Calls :
       (Starts(c) /\ Len(services) = 0) =>
         /\ pc'[c] = "raised"
         /\ result'[c] = NoServicesRegistered
         /\ circuit_breaker' = circuit_breaker
         /\ services' = services /\ now' = now
         /\ invocations'[c] = 0 /\ sleeps'[c] = 0 /\ idx'[c] = 0
         /\ visited'[c] = <<>> /\ recorded'[c] = NoRecorded /\ error'[c] = NoError
         /\ \A o \in Calls \ {c} :
              /\ pc'[o] = pc[o] /\ result'[o] = result[o] /\ idx'[o] = idx[o]
              /\ attempt'[o] = attempt[o] /\ visited'[o] = visited[o]]_vars

\* an execute has failed with "No services registered." and the breaker has
\* never been touched
C14_Witness ==
  \E c \in Calls :
    /\ pc[c] = "raised"
    /\ result[c] = NoServicesRegistered
    /\ Len(services) = 0
    /\ circuit_breaker = NewCircuitBreaker

\* the position of Service s in the list
Position(s) == CHOOSE j \in 1..Len(services) : services[j] = s

\* C15: when allow_request refuses a Service during execute, that Service's
\* request is not invoked (the call is not suspended on it afterwards),
\* neither record_success nor record_failure is called for it (its breaker
\* record, key sets included, and the call's record_failure count for it are
\* unchanged), no backoff sleep is started for it, and the loop has moved on:
\* the call is past that position, suspended on a later Service or finished.
C15_SkipFrame ==
  [][\A c \in Calls : \A s \in Registered :
       Appended(c, s, "skipped") =>
         /\ ~allow_request(circuit_breaker, s, now).ret
         /\ BreakerRecord(circuit_breaker', s) = BreakerRecord(circuit_breaker, s)
         /\ s \in DOMAIN circuit_breaker'.state <=> s \in DOMAIN circuit_breaker.state
         /\ s \in DOMAIN circuit_breaker'.failure_counts
              <=> s \in DOMAIN circuit_breaker.failure_counts
         /\ s \in DOMAIN circuit_breaker'.last_failure_time
              <=> s \in DOMAIN circuit_breaker.last_failure_time
         /\ recorded'[c][s] = recorded[c][s]
         /\ Len(visited'[c]) >= Position(s)
         /\ visited'[c][Position(s)] = "skipped"
         /\ IF pc'[c] = "request"
            THEN idx'[c] > Position(s) /\ sleeps'[c] = 0
            ELSE pc'[c] = "raised" /\ result'[c] = AllServicesFailed]_vars

\* a call skipped the first Service and is suspended on the second one, the
\* first Service's breaker still OPEN with the count that tripped it
C15_Witness ==
  \E c \in Calls :
    /\ pc[c] = "request"
    /\ Len(services) = 2
    /\ visited[c] = <<"skipped">>
    /\ idx[c] = 2
    /\ get_state(circuit_breaker, services[1]) = "OPEN"
    /\ get_failure_count(circuit_breaker, services[1]) = failure_threshold
    /\ recorded[c][services[1]] = 0

\* C16 as stated: an execute called with an unsupported method is not a breaker
\* failure: it leaves every Service's failure_count as it was and opens no
\* breaker that was CLOSED.
C16_BadMethodNotBreakerFailure ==
  [][\A c \in Calls :
       (Starts(c) /\ ~method_supported(method'[c])) =>
         \A s \in Services :
           /\ get_failure_count(circuit_breaker', s)
                = get_failure_count(circuit_breaker, s)
           /\ get_state(circuit_breaker, s) = "CLOSED"
                => get_state(circuit_breaker', s) = "CLOSED"]_vars

\* task r enters request in this step
Enters(r) == tasks[r].pc = "idle" /\ tasks'[r].pc # "idle"

\* in this step the health_check awaited by task r returned status h
ProbeReturns(r, h) ==
  /\ tasks[r].pc = "probe"
  /\ tasks'[r] # tasks[r]
  /\ tasks'[r].out.cls # "asyncio.CancelledError"
  /\ last_health_status' = <<h>>

\* C17: request called with a method outside HTTP_METHODS raises ValueError
\* as its first step: the task has done nothing else (no probe, no cache read
\* or write, no pool slot, no token, no HTTP request, no metric) and the
\* Service's cache, pool, throttler log and last health status are unchanged.
C17_BadMethodFirst ==
  [][\A r \in Tasks :
       (Enters(r) /\ ~method_supported(tasks'[r].args.method)) =>
         /\ tasks'[r].pc = "raised"
         /\ tasks'[r].out = Raised("ValueError", "Unsupported HTTP method")
         /\ tasks'[r].ops = <<>>
         /\ UNCHANGED <<cache, semaphore, task_logs, last_health_status>>]_vars

\* a request with an unsupported method has raised ValueError and no probe
\* has ever been run on the Service
C17_Witness ==
  \E r \in Tasks :
    /\ tasks[r].pc = "raised"
    /\ tasks[r].out.cls = "ValueError"
    /\ ~method_supported(tasks[r].args.method)
    /\ tasks[r].ops = <<>>
    /\ last_health_status = <<>>

\* what a task did, the latency observations made when a frame leaves its
\* pool block left out
Did(ops) == SelectSeq(ops, LAMBDA x : x.op # "observe_latency")

\* C18: every call of request with a supported method starts with the health
\* probe (the nested call of the 429 path too), the cache is only consulted
\* right after a probe, and when the probe reports overall_status False the
\* call raises "Service is unhealthy" at once: nothing is added to what the
\* task did (no cache read, pool slot, token, HTTP request or error metric;
\* the frames of a 429 path that the error leaves close their latency timers)
\* and the cache and the throttler log are unchanged, no pool slot is taken;
\* this also when a live entry is cached under the request's key.
C18_HealthGate ==
  [][\A r \in Tasks :
       /\ (Enters(r) /\ method_supported(tasks'[r].args.method)) =>
            (tasks'[r].pc = "probe" /\ tasks'[r].ops[1].op = "probe")
       /\ \A i \in 1..Len(tasks'[r].ops) :
            tasks'[r].ops[i].op = "cache_get" =>
              (i > 1 /\ tasks'[r].ops[i - 1].op = "probe")
       /\ Len(tasks'[r].frames) > Len(tasks[r].frames) =>
            (tasks'[r].pc = "probe"
             /\ tasks'[r].ops[Len(tasks'[r].ops)].op = "probe")
       /\ \A h \in {health_check(o) : o \in HealthOutcomes} :
            (ProbeReturns(r, h) /\ ~h.overall_status) =>
              /\ tasks'[r].pc = "raised"
              /\ tasks'[r].out = Raised("ConnectionError", "Service is unhealthy")
              /\ Did(tasks'[r].ops) = Did(tasks[r].ops)
              /\ cache' = cache
              /\ task_logs' = task_logs
              /\ semaphore' >= semaphore]_vars

\* a request has raised "Service is unhealthy" straight after its probe while
\* a live, non-empty entry is cached under its key
C18_Witness ==
  \E r \in Tasks :
    /\ tasks[r].pc = "raised"
    /\ tasks[r].out = Raised("ConnectionError", "Service is unhealthy")
    /\ Len(tasks[r].ops) = 1
    /\ tasks[r].ops[1].op = "probe"
    /\ truthy(cache_get(cache, frame_key(tasks[r].args), now))
    /\ last_health_status # <<>>
    /\ ~last_health_status[1].overall_status

\* C19 as stated: when a body is stored, live, under the key of a request and
\* the probe of that request reports healthy, the request returns the stored
\* body, whatever its text, having only read the cache: no pool slot, no
\* token, no HTTP request.
C19_CacheHitSkipsNetwork ==
  [][\A r \in Tasks :
       \A h \in {health_check(o) : o \in HealthOutcomes} :
         ( /\ ProbeReturns(r, h)
           /\ h.overall_status
           /\ Len(tasks[r].frames) = 1
           /\ cache_live(cache, frame_key(tasks[r].args), now) ) =>
           /\ tasks'[r].pc = "returned"
           /\ tasks'[r].out = Returned(cache[frame_key(tasks[r].args)].value)
           /\ tasks'[r].ops = Append(tasks[r].ops, Op("cache_get", tasks[r].args))
           /\ semaphore' = semaphore
           /\ task_logs' = task_logs]_vars

HeldSlots(r) ==
  CASE tasks[r].pc \in {"rate_wait", "http", "sleep429"} -> Len(tasks[r].frames)
    [] tasks[r].pc \in {"probe", "pool_wait"} -> Len(tasks[r].frames) - 1
    [] OTHER -> 0

RECURSIVE SumHeld(_)
SumHeld(S) ==
  IF S = {} THEN 0
  ELSE LET r == CHOOSE x \in S : TRUE IN HeldSlots(r) + SumHeld(S \ {r})

\* the tasks whose HTTP exchange is in flight
HttpInFlight == {r \in Tasks : tasks[r].pc = "http"}

InProgress(r) == tasks[r].pc \notin {"idle", "returned", "raised"}

\* C21: the HTTP attempts in flight to the Service never exceed max_size.
\* Every attempt in flight holds a pool slot of its own, the slots held by
\* all frames are exactly those missing from the semaphore, and the semaphore
\* never goes below zero.
C21_InFlightWithinPool ==
  /\ semaphore \in 0..max_size
  /\ SumHeld(Tasks) = max_size - semaphore
  /\ \A r \in HttpInFlight : HeldSlots(r) >= 1
  /\ Cardinality(HttpInFlight) <= max_size - semaphore
  /\ Cardinality(HttpInFlight) <= max_size

\* the pool is exhausted by one task (an attempt in flight in its nested
\* call, its outer frame keeping a slot) and the other task's attempt is held
\* back waiting for a slot
C21_Witness ==
  /\ semaphore = 0
  /\ \E r \in Tasks : tasks[r].pc = "http" /\ HeldSlots(r) = max_size
  /\ \E r \in Tasks : tasks[r].pc = "pool_wait" /\ HeldSlots(r) = 0

\* C22: whenever no request to the Service is in progress every slot of its
\* pool is free, whichever way the requests ended (a body, a response error,
\* a timeout, a transport error, a cancellation).
C22_SlotsReleased ==
  (\A r \in Tasks : ~InProgress(r)) => semaphore = max_size

\* no request is in progress, one task was cancelled inside its nested call
\* with two slots held and the other failed in its HTTP exchange
C22_Witness ==
  /\ \A r \in Tasks : ~InProgress(r)
  /\ semaphore = max_size
  /\ \E r \in Tasks :
        /\ tasks[r].out.cls = "asyncio.CancelledError"
        /\ Len(SelectSeq(tasks[r].ops, LAMBDA x : x.op = "pool")) = 2
        /\ Len(SelectSeq(tasks[r].ops, LAMBDA x : x.op = "observe_latency")) = 2
  /\ \E r \in Tasks :
        /\ tasks[r].out = Raised("ConnectionError", "timeout")
        /\ \E i \in 1..Len(tasks[r].ops) : tasks[r].ops[i].op = "http"

\* C23 as stated: a request waiting for a token of the RateLimiter holds no
\* slot of the ConnectionPool.
C23_NoSlotWhileWaitingForToken ==
  \A r \in Tasks : tasks[r].pc = "rate_wait" => HeldSlots(r) = 0

\* C24: in every window of length period (both ends included) the Service
\* issues at most rate HTTP requests, over all tasks and counting the
\* reissue made after a 429.  issued keeps every issue of the window that
\* ends at the latest issue, so each window is looked at when its last
\* request is issued.
C24_RateWithinWindow ==
  \A a \in 0..MaxTime :
    Len(SelectSeq(issued, LAMBDA x : a <= x /\ x <= a + period)) <= rate_limit

\* the reissue after a 429 is held back by the limiter: the window that
\* began with the latest issue is full and has just reached its end
C24_Witness ==
  \E r \in Tasks :
    /\ tasks[r].pc = "rate_wait"
    /\ Len(tasks[r].frames) = 2
    /\ Len(InWindow(issued, now)) = rate_limit
    /\ now = issued[1] + period

\* C25 as stated: a 429 answer makes the frame record a rate_limit error and
\* start the Retry-After sleep, and the call of request made after the sleep
\* carries the method and params the caller passed.
C25_ReissueSameRequest ==
  [][\A r \in Tasks :
       /\ (tasks[r].pc = "http" /\ tasks'[r].pc = "sleep429") =>
            tasks'[r].ops =
              tasks[r].ops \o <<[Op("record_error", Top(tasks[r])) EXCEPT
                                   !.arg = "rate_limit"],
                                Op("sleep", Top(tasks[r]))>>
       /\ (tasks[r].pc = "sleep429" /\ Len(tasks'[r].frames) > Len(tasks[r].frames)) =>
            tasks'[r].frames[Len(tasks'[r].frames)] = tasks[r].args]_vars

\* MetricsCollector.record_request is the one place request_counter
\* (requests_total) is incremented: the increments with status success a task
\* made, as its history holds them
requests_total(ops) ==
  Len(SelectSeq(ops, LAMBDA x : x.op = "record_request" /\ x.arg = "success"))

\* the request of a returned task was served from the network: its last
\* operation before leaving the pool block was cache.set
ServedFromNetwork(r) ==
  /\ tasks[r].pc = "returned"
  /\ Did(tasks[r].ops) # <<>>
  /\ Did(tasks[r].ops)[Len(Did(tasks[r].ops))].op = "cache_set"

\* C26 as stated: a request served from the network has incremented
\* requests_total{status=success} exactly once, a request served from the
\* cache not at all.
C26_RequestsTotal ==
  \A r \in Tasks :
    tasks[r].pc = "returned" =>
      requests_total(tasks[r].ops) = IF ServedFromNetwork(r) THEN 1 ELSE 0

\* C27: a step that cancels an execute call suspended in a Service attempt
\* (inside request or in the backoff sleep) records nothing: the breaker's
\* dicts, the failure_count of the Service being tried among them, and the
\* call's record_failure count are as before.
C27_CancelRecordsNothing ==
  [][\A c \in Calls :
       (pc[c] \in {"request", "sleep"} /\ pc'[c] = "cancelled") =>
         /\ circuit_breaker' = circuit_breaker
         /\ get_failure_count(circuit_breaker', services[idx[c]]) =
              get_failure_count(circuit_breaker, services[idx[c]])
         /\ recorded'[c] = recorded[c]]_vars

\* a call was cancelled in its first Service attempt and no failure is
\* counted for any Service
C27_Witness ==
  \E c \in Calls :
    /\ pc[c] = "cancelled"
    /\ visited[c] = <<>>
    /\ recorded[c] = NoRecorded
    /\ Len(services) >= 1
    /\ \A s \in Services : get_failure_count(circuit_breaker, s) = 0

\* in this step health_check returned to its caller
HealthCheckReturns == hc'.pc = "idle" /\ hc'.returned # <<>> /\ hc' # hc

\* C28: every HealthStatus health_check returns, and the one the Service
\* retains, has overall_status = dns_check.status and ping_check.status; ping
\* is awaited only with DNS resolved, and when DNS failed ping_check is as
\* HealthStatus() made it (status False, no message: no ping was sent).
C28_OverallIsDnsAndPing ==
  /\ \A hs \in {hc.returned[i] : i \in 1..Len(hc.returned)}
               \cup {last_health_status[i] : i \in 1..Len(last_health_status)} :
        /\ hs.overall_status = (hs.dns_check.status /\ hs.ping_check.status)
        /\ ~hs.dns_check.status =>
             hs.ping_check = [status |-> FALSE, message |-> ""]
  /\ hc.pc = "ping" => hc.health_status[1].dns_check.status

\* health_check returned a status with DNS resolved and the ping too slow:
\* overall_status is False although dns_check.status is True
C28_Witness ==
  /\ hc.pc = "idle"
  /\ hc.returned # <<>>
  /\ hc.returned[1].dns_check.status
  /\ hc.returned[1].ping_check = [status |-> FALSE, message |-> "High latency detected"]
  /\ ~hc.returned[1].overall_status
  /\ last_health_status = hc.returned

\* C29 as stated: whatever URL parsing, DNS resolution and ping give,
\* health_check returns a HealthStatus when it ends uncancelled, and when one
\* of them raised an unexpected exception the status returned has
\* overall_status False and tells the failure in error_message.
C29_NeverRaises ==
  [][/\ (hc' # hc /\ hc'.pc = "idle" /\ ~cancel_health_check) => hc'.returned # <<>>
     /\ ( \/ (health_check_begin /\ urlparse_hostname(base_url).raises # "")
          \/ check_dns_done("unexpected")
          \/ check_ping_done("unexpected") ) =>
          /\ HealthCheckReturns
          /\ ~hc'.returned[1].overall_status
          /\ hc'.returned[1].error_message # ""]_vars

\* C30 as stated: once a health_check call has returned, the status the
\* Service retains is the one that call returned.
C30_LastStatusRetained ==
  (hc.pc = "idle" /\ hc.returned # <<>>) => last_health_status = hc.returned

\* C31 as stated: health_history never holds more than the limit, and it is
\* the results of the latest probes of the Service, in the order they were
\* made, whoever awaited health_check: verify_service_health or the pre-flight
\* probe of request.
C31_HistoryHoldsLatestProbes ==
  /\ Len(health_history) <= HistoryLimit
  /\ health_history = probes

\* task r is suspended in Semaphore.acquire of the pool
WaitsForSlot(r) == tasks[r].pc = "pool_wait"

\* C32 as stated: concurrent requests never deadlock on the pool.  Whenever a
\* request waits for a slot, a slot is free or some slot is held by a request
\* that is not itself waiting for one, so that the end of an HTTP exchange or
\* of a sleep can give the slot back (429 answers and their reissue included).
C32_NoPoolDeadlock ==
  (\E r \in Tasks : WaitsForSlot(r)) =>
    \/ semaphore > 0
    \/ \E q \in Tasks : HeldSlots(q) > 0 /\ ~WaitsForSlot(q)

\* With every awaited request ending (returning or failing) and every backoff
\* sleep ending, which is what the event loop gives a call whose probes,
\* exchanges and sleeps complete, each execute call returns or fails.
ExecuteStep(c) ==
  \/ request_returns(c)
  \/ \E f \in Failures : request_fails(c, f)
  \/ sleep_done(c)

FairSeqSpec == SeqSpec /\ \A c \in Calls : WF_vars(ExecuteStep(c))

ExecuteTerminates ==
  \A c \in Calls : (pc[c] \in {"request", "sleep"}) ~> Finished(c)

\* C33 as stated: no call stays pending forever when every probe, exchange
\* and sleep completes, an upstream answering 429 to every request included.
\* A request never waits for a slot of the pool while its own frames hold
\* every slot: nothing but its cancellation would end that wait.
C33_NoRequestBlocksItself ==
  \A r \in Tasks : ~(WaitsForSlot(r) /\ HeldSlots(r) = max_size)

\* C34 as stated: a breaker leaves OPEN only by allow_request's transition to
\* HALF_OPEN once more than recovery_time has passed since last_failure_time;
\* no recorded outcome takes it from OPEN straight to CLOSED.
C34_OpenLeavesByAdmissionOnly ==
  [][\A s \in Services :
       (/\ get_state(circuit_breaker, s) = "OPEN"
        /\ get_state(circuit_breaker', s) # "OPEN")
       => /\ get_state(circuit_breaker', s) = "HALF_OPEN"
          /\ now - get_last_failure_time(circuit_breaker, s) > recovery_time
          /\ \E c \in Calls : Admitted(c) /\ services[idx'[c]] = s]_vars

\* C35 as stated: while a breaker is OPEN its last_failure_time does not
\* change, whatever the calls to that Service still in flight record.  Taken
\* over the steps made inside the recovery window, where no call can have
\* been readmitted in between.
C35_OpenKeepsLastFailureTime ==
  [][\A s \in Services :
       (InsideWindow(s) /\ get_state(circuit_breaker', s) = "OPEN")
       => get_last_failure_time(circuit_breaker', s)
            = get_last_failure_time(circuit_breaker, s)]_vars

\* C36 as stated: once every execute call has completed or been cancelled, no
\* breaker is HALF_OPEN.
C36_HalfOpenResolved ==
  (\A c \in Calls : ~InFlight(c)) =>
    \A s \in Services : get_state(circuit_breaker, s) # "HALF_OPEN"

\* C37: for every Service, under every interleaving of execute calls, a CLOSED
\* breaker has failure_count < failure_threshold and an OPEN or HALF_OPEN one
\* has failure_count >= failure_threshold.
C37_StateAgreesWithCount ==
  \A s \in Services :
    IF get_state(circuit_breaker, s) = "CLOSED"
    THEN get_failure_count(circuit_breaker, s) < failure_threshold
    ELSE /\ get_state(circuit_breaker, s) \in {"OPEN", "HALF_OPEN"}
         /\ get_failure_count(circuit_breaker, s) >= failure_threshold

\* one breaker readmitted to HALF_OPEN with its count at the threshold or
\* above, another OPEN, after a success had closed one of them again
C37_Witness ==
  \E s \in Registered, u \in Registered :
    /\ get_state(circuit_breaker, s) = "HALF_OPEN"
    /\ get_failure_count(circuit_breaker, s) >= failure_threshold
    /\ get_state(circuit_breaker, u) = "CLOSED"
    /\ get_failure_count(circuit_breaker, u) > 0
    /\ \E c \in Calls : pc[c] = "returned"

\* Cache.set stored something under key k in this step
StoredUnder(k) == k \notin DOMAIN cache \/ cache'[k] # cache[k]

\* C38 as stated: whatever is stored in the cache under key k is the body of
\* a 2xx answer to an HTTP request issued with the method, endpoint, params
\* and data that k encodes, also after 429 answers: every store is made in
\* the step where such an exchange ends, under the key of the request that
\* was issued, with the body that came back.
C38_CachedUnderIssuedKey ==
  [][\A k \in DOMAIN cache' :
       StoredUnder(k) =>
         \E r \in Tasks, b \in Bodies :
           /\ http_done(r, [kind |-> "2xx", body |-> b])
           /\ k = frame_key(Top(tasks[r]))
           /\ cache'[k].value = b]_vars

\* C39 as stated: for every breaker record and clock value, CircuitBreaker.call
\* rejects exactly when allow_request would return False, leaving the breaker
\* as allow_request leaves it; and when the service call fails it leaves the
\* record record_failure would leave and re-raises the service's error, the
\* first failure of a Service with no record included.
C39_CallLikeAllowThenRecord ==
  \A s \in Services :
    /\ call_admit(circuit_breaker, s, now) = allow_request(circuit_breaker, s, now)
    /\ call_except(circuit_breaker, s, now)
         = [cb |-> record_failure(circuit_breaker, s, now), raises |-> "e"]

\* the policy was constructed with all three parameters supplied
Supplied ==
  given.max_attempts # <<>> /\ given.base_delay # <<>> /\ given.jitter # <<>>

\* C40 as stated: a RetryPolicy constructed with max_attempts >= 1,
\* base_delay >= 0 and jitter >= 0 (0 included) holds exactly those values,
\* and the wait before retry number attempt lies between base_delay * 2^attempt
\* and base_delay * 2^attempt + jitter, so that base_delay 0 with jitter 0
\* gives no wait.
C40_PolicyUsesGivenValues ==
  Supplied =>
    /\ retry_policy = [max_attempts |-> given.max_attempts[1],
                       base_delay |-> given.base_delay[1],
                       jitter |-> given.jitter[1]]
    /\ delay # <<>> =>
         LET lowest == given.base_delay[1] * Pow2(delay[1].attempt)
         IN /\ lowest <= delay[1].delay
            /\ delay[1].delay <= lowest + given.jitter[1]

====
